---- MODULE Spec2Model ----
(***************************************************************************)
(* Model of the expense calculator's allocation engine (src/main.py):      *)
(* compute_allocations and the pledge endpoint that feeds it.              *)
(*                                                                         *)
(* Representation.  Numeric(12, 2) columns (Event.total_amount,            *)
(* Pledge.value) are decimals with two places; a decimal d is held as the  *)
(* integer 100 * d ("hundredths").  So total 3.00 is 300, a percentage of  *)
(* 50.00 is 5000 and a fixed value of 0.50 is 50.  The floats the code     *)
(* computes with are exact for the values drawn here (whole percentages    *)
(* and small integers), hence the rational arithmetic below gives the      *)
(* float results.  Participants of the event are 1..nparts in query order; *)
(* targets is the dict of line 115, keyed in that order.                   *)
(*                                                                         *)
(* Requests are modelled as served one at a time: a pledge is posted only  *)
(* between two computations.  The store may hold rows before the first     *)
(* request (the sqlite file outlives the process), so the initial states   *)
(* draw the stored rows from a bounded set; in particular an active        *)
(* underpay bid, which the pledge endpoint never writes, can only be such  *)
(* a stored row.                                                           *)
(***************************************************************************)
EXTENDS Integers, Sequences, FiniteSets, TLC

\* ---------------------------------------------------------------- bounds
MaxN == 3
MaxPledges == 2

\* Event.total_amount values drawn (hundredths): 0.01, 1.00, 3.00
Totals == {1, 100, 300}
\* Pledge.value drawn when value_type = "percent": -50%, 50%, 150%
PercentValues == {-5000, 5000, 15000}
\* Pledge.value drawn when value_type = "fixed": 0.01, 0.50
FixedValues == {1, 50}

\* ------------------------------------------------------------ state
VARIABLES
    total,      \* Event.total_amount of the event (hundredths)
    nparts,     \* number of Participant rows of the event
    pledges,    \* the Pledge rows of the event, in rowid order
    unbid,      \* history: pledges without the underpay bids posted via pledge()
    pc,         \* position of the request being served
    targets,    \* compute_allocations: targets
    queue,      \* compute_allocations: rest of vops / bids still to iterate
    shortfall,  \* compute_allocations: shortfall of the bid being processed
    result      \* value returned by compute_allocations (hundredths), per participant

vars == <<total, nparts, pledges, unbid, pc, targets, queue, shortfall, result>>

\* ------------------------------------------------------------ pledge rows
PledgeValues(value_type) ==
    IF value_type = "percent" THEN PercentValues
    ELSE IF value_type = "fixed" THEN FixedValues
    ELSE {0}

\* (type, value_type, value) combinations drawn; "none" stands for None
Shapes ==
    { [type |-> "equal", value_type |-> "none", value |-> 0] }
    \cup UNION { { [type |-> ty, value_type |-> vt, value |-> v] :
                     ty \in {"volunteer_overpay", "underpay_bid"},
                     v \in PledgeValues(vt) } : vt \in {"percent", "fixed"} }

Row(pid, s, act) ==
    [participant_id |-> pid, type |-> s.type, value_type |-> s.value_type,
     value |-> s.value, active |-> act]

\* Pledge.participant_id values drawn; 2 is no participant of an event of one
PledgePids == {1, 2}

\* rows already stored when the model starts: all active (an inactive row
\* comes from the pledge endpoint, see pledge below)
PledgeRows == { Row(pid, s, TRUE) : pid \in PledgePids, s \in Shapes }

RECURSIVE Tables(_)
Tables(n) ==
    IF n = 0 THEN { <<>> }
    ELSE LET shorter == Tables(n - 1)
         IN  shorter \cup { Append(t, r) : t \in {s \in shorter : Len(s) = n - 1},
                                           r \in PledgeRows }

\* ------------------------------------------------------------ arithmetic
\* Python's // on ints: floor division, any signs (b # 0)
FloorDiv(a, b) == IF b > 0 THEN a \div b ELSE (-a) \div (-b)

\* Python 3 round(num / den) for den > 0: nearest integer, halves to even
RoundHalfEven(num, den) ==
    LET q == num \div den
        r == num % den
    IN  IF 2 * r < den THEN q
        ELSE IF 2 * r > den THEN q + 1
        ELSE IF q % 2 = 0 THEN q ELSE q + 1

\* cents(d) = int(round(float(d) * 100)), d given in hundredths
cents(d) == RoundHalfEven(d * 100, 100)

\* money(c) = round(c / 100.0 + 1e-9, 2), in hundredths: c plus the rounded
\* epsilon of 1e-7 hundredths
money(c) == c + RoundHalfEven(1, 10000000)

RECURSIVE SumSeq(_)
SumSeq(s) == IF s = <<>> THEN 0 ELSE Head(s) + SumSeq(Tail(s))

Min(a, b) == IF a <= b THEN a ELSE b

RECURSIVE QueryPledges(_, _, _)
\* db.query(Pledge).filter_by(event_id, type=ty, active=act).all()
QueryPledges(rows, ty, act) ==
    IF rows = <<>> THEN <<>>
    ELSE LET rest == QueryPledges(Tail(rows), ty, act)
         IN  IF Head(rows).type = ty /\ Head(rows).active = act
             THEN <<Head(rows)>> \o rest ELSE rest

\* ------------------------------------------------------------ compute_allocations
\* lines 114-117: base share, the remainder to the first participants
\* faulty variant: the remainder goes to the last participants
EqualSplitLast(T, N) ==
    [i \in 1..N |-> (T \div N) + IF i > N - (T - (T \div N) * N) THEN 1 ELSE 0]

EqualSplit(T, N) ==
    [i \in 1..N |-> (T \div N) + IF i <= T - (T \div N) * N THEN 1 ELSE 0]

\* int(round(targets[pid] * float(value) / 100.0)), lines 124 and 134
PercentOf(t, value) == RoundHalfEven(t * value, 10000)

\* lines 122-126: the amount a volunteer_overpay pledge adds
OverpayAdd(t, v) ==
    IF v.value_type = "percent" THEN PercentOf(t[v.participant_id], v.value)
    ELSE IF v.value_type = "fixed" THEN cents(v.value)
    ELSE 0

\* faulty variant of line 127: the sign of the overpay is wrong
ApplyOverpaySubtract(t, v) ==
    [t EXCEPT ![v.participant_id] = @ - OverpayAdd(t, v)]

\* line 127
ApplyOverpay(t, v) ==
    [t EXCEPT ![v.participant_id] = @ + OverpayAdd(t, v)]

\* lines 132-136: the shortfall of an underpay bid
BidShortfall(t, b) ==
    IF b.value_type = "percent" THEN PercentOf(t[b.participant_id], b.value)
    ELSE IF b.value_type = "fixed" THEN Min(cents(b.value), t[b.participant_id])
    ELSE 0

\* line 139
SubtractShortfall(t, pid, s) == [t EXCEPT ![pid] = @ - s]

\* line 140: the other participants, in dict order
Others(t, pid) == SelectSeq([i \in 1..Len(t) |-> i], LAMBDA q : q # pid)

RECURSIVE SumOver(_, _)
\* sum(f[pid] for pid in ids)
SumOver(f, ids) == IF ids = <<>> THEN 0 ELSE f[Head(ids)] + SumOver(f, Tail(ids))

\* line 141: sum(...) or 1
Denom(t, pid) ==
    LET d == SumOver(t, Others(t, pid)) IN IF d = 0 THEN 1 ELSE d

\* line 142
AddMap(t, pid, s) ==
    [q \in 1..Len(t) |-> IF q = pid THEN 0 ELSE FloorDiv(s * t[q], Denom(t, pid))]

\* length of lst[:k] for a list of n elements (a negative k counts from the end)
SliceLen(n, k) ==
    IF k >= 0 THEN Min(k, n) ELSE IF n + k > 0 THEN n + k ELSE 0

\* position of q in sorted(others, key=targets, reverse=True): the sort is
\* stable, so equal targets keep dict order
RankDesc(t, pid, q) ==
    Cardinality({ o \in 1..Len(t) :
                    /\ o # pid /\ o # q
                    /\ (t[o] > t[q] \/ (t[o] = t[q] /\ o < q)) })

\* faulty variant: the leftover of the floor divisions (lines 143-146) is dropped
RedistributeNoLeftover(t, pid, s) ==
    [q \in 1..Len(t) |-> t[q] + AddMap(t, pid, s)[q]]

\* lines 140-148: redistribute s over the others; t is targets after line 139
Redistribute(t, pid, s) ==
    LET add == AddMap(t, pid, s)
        distributed == SumOver(add, Others(t, pid))
        n == SliceLen(Len(t) - 1, s - distributed)
    IN  [q \in 1..Len(t) |->
            IF q = pid THEN t[q]
            ELSE t[q] + add[q] + IF RankDesc(t, pid, q) < n THEN 1 ELSE 0]

\* max(targets, key=targets.get): the first key holding the largest value
ArgMax(t) ==
    CHOOSE i \in 1..Len(t) :
        /\ \A j \in 1..Len(t) : t[j] <= t[i]
        /\ \A j \in 1..(i - 1) : t[j] < t[i]

\* faulty variant: the gap is not assigned
FinalCorrectionNone(t, T) == t

\* lines 151-153
FinalCorrection(t, T) ==
    LET gap == T - SumSeq(t)
    IN  IF gap # 0 THEN [t EXCEPT ![ArgMax(t)] = @ + gap] ELSE t

\* line 155
Returned(t) == [i \in 1..Len(t) |-> money(t[i])]

\* faulty variant: without line 111, line 114 divides by zero
StartNoGuard(T, N) ==
    IF N = 0 THEN [ret |-> FALSE, err |-> TRUE, t |-> <<>>]
    ELSE [ret |-> FALSE, err |-> FALSE, t |-> EqualSplit(cents(T), N)]

\* lines 109-117: what the function holds when it reaches line 119.  ret: it
\* returned {} at line 111; err: it raised
Start(T, N) ==
    IF N = 0 THEN [ret |-> TRUE, err |-> FALSE, t |-> <<>>]
    ELSE [ret |-> FALSE, err |-> FALSE, t |-> EqualSplit(cents(T), N)]

\* targets[pid] raises KeyError when pid is no participant of the event
KnownParticipant(t, pid) == pid \in DOMAIN t

RECURSIVE RunVops(_, _)
\* lines 121-127, the whole loop
RunVops(t, q) ==
    IF q = <<>> THEN [err |-> FALSE, t |-> t]
    ELSE IF ~KnownParticipant(t, Head(q).participant_id) THEN [err |-> TRUE, t |-> t]
    ELSE RunVops(ApplyOverpay(t, Head(q)), Tail(q))

\* lines 132-148, one iteration for a bid of a known participant
ApplyBid(t, b) ==
    LET s == BidShortfall(t, b)
    IN  IF s <= 0 THEN t
        ELSE Redistribute(SubtractShortfall(t, b.participant_id, s), b.participant_id, s)

RECURSIVE RunBids(_, _)
\* lines 131-148, the whole loop
RunBids(t, q) ==
    IF q = <<>> THEN [err |-> FALSE, t |-> t]
    ELSE IF ~KnownParticipant(t, Head(q).participant_id) THEN [err |-> TRUE, t |-> t]
    ELSE RunBids(ApplyBid(t, Head(q)), Tail(q))

Raised == [status |-> "error", value |-> <<>>]

\* lines 108-155 as one function of the stored rows
compute_allocations(T, N, rows) ==
    LET st == Start(T, N)
    IN  IF st.err THEN Raised
        ELSE IF st.ret THEN [status |-> "ok", value |-> <<>>]
        ELSE LET v == RunVops(st.t, QueryPledges(rows, "volunteer_overpay", TRUE))
             IN  IF v.err THEN Raised
                 ELSE LET b == RunBids(v.t, QueryPledges(rows, "underpay_bid", TRUE))
                      IN  IF b.err THEN Raised
                          ELSE [status |-> "ok",
                                value |-> Returned(FinalCorrection(b.t, cents(T)))]

\* ------------------------------------------------------------ pledge endpoint
\* faulty variant: every pledge is stored active
PledgeActiveAlways(ptype) == TRUE

\* line 223
PledgeActive(ptype) == ptype # "underpay_bid"

\* ------------------------------------------------------------ the state machine
Init ==
    /\ total \in Totals
    /\ nparts \in 0..MaxN
    /\ pledges \in Tables(MaxPledges)
    /\ unbid = pledges
    /\ pc = "idle"
    /\ targets = <<>>
    /\ queue = <<>>
    /\ shortfall = 0
    /\ result = <<>>

\* POST /event/{event_id}/pledge, lines 218-227
pledge ==
    /\ pc = "idle"
    /\ Len(pledges) < MaxPledges
    /\ \E pid \in PledgePids, s \in Shapes :
          LET row == Row(pid, s, PledgeActive(s.type))
          IN  /\ pledges' = Append(pledges, row)
              /\ unbid' = IF s.type = "underpay_bid" THEN unbid ELSE Append(unbid, row)
    /\ UNCHANGED <<total, nparts, pc, targets, queue, shortfall, result>>

\* compute_allocations is called (lines 192, 231); lines 109-120
ComputeStart ==
    /\ pc = "idle"
    /\ LET st == Start(total, nparts)
       IN  IF st.err
           THEN /\ pc' = "error"
                /\ UNCHANGED <<targets, queue, result>>
           ELSE IF st.ret
           THEN /\ pc' = "done"
                /\ result' = <<>>
                /\ UNCHANGED <<targets, queue>>
           ELSE /\ pc' = "vops"
                /\ targets' = st.t
                /\ queue' = QueryPledges(pledges, "volunteer_overpay", TRUE)
                /\ UNCHANGED result
    /\ UNCHANGED <<total, nparts, pledges, unbid, shortfall>>

\* lines 121-127, one iteration
OverpayStep ==
    /\ pc = "vops"
    /\ queue # <<>>
    /\ IF KnownParticipant(targets, Head(queue).participant_id)
       THEN /\ targets' = ApplyOverpay(targets, Head(queue))
            /\ queue' = Tail(queue)
            /\ pc' = pc
       ELSE /\ pc' = "error"
            /\ UNCHANGED <<targets, queue>>
    /\ UNCHANGED <<total, nparts, pledges, unbid, shortfall, result>>

\* line 130
LoadBids ==
    /\ pc = "vops"
    /\ queue = <<>>
    /\ queue' = QueryPledges(pledges, "underpay_bid", TRUE)
    /\ pc' = "bids"
    /\ UNCHANGED <<total, nparts, pledges, unbid, targets, shortfall, result>>

\* lines 132-139
BidSubtract ==
    /\ pc = "bids"
    /\ queue # <<>>
    /\ IF KnownParticipant(targets, Head(queue).participant_id)
       THEN LET s == BidShortfall(targets, Head(queue))
            IN  IF s <= 0
                THEN /\ queue' = Tail(queue)
                     /\ UNCHANGED <<pc, targets, shortfall>>
                ELSE /\ targets' = SubtractShortfall(targets, Head(queue).participant_id, s)
                     /\ shortfall' = s
                     /\ pc' = "redistribute"
                     /\ UNCHANGED queue
       ELSE /\ pc' = "error"
            /\ UNCHANGED <<targets, queue, shortfall>>
    /\ UNCHANGED <<total, nparts, pledges, unbid, result>>

\* lines 140-148
BidRedistribute ==
    /\ pc = "redistribute"
    /\ targets' = Redistribute(targets, Head(queue).participant_id, shortfall)
    /\ queue' = Tail(queue)
    /\ shortfall' = 0
    /\ pc' = "bids"
    /\ UNCHANGED <<total, nparts, pledges, unbid, result>>

\* lines 150-155
Finish ==
    /\ pc = "bids"
    /\ queue = <<>>
    /\ result' = Returned(FinalCorrection(targets, cents(total)))
    /\ pc' = "done"
    /\ UNCHANGED <<total, nparts, pledges, unbid, targets, queue, shortfall>>

\* the request ends (the mapping is rendered, or the exception becomes a 500)
Respond ==
    /\ pc \in {"done", "error"}
    /\ pc' = "idle"
    /\ targets' = <<>>
    /\ queue' = <<>>
    /\ shortfall' = 0
    /\ result' = <<>>
    /\ UNCHANGED <<total, nparts, pledges, unbid>>

Next ==
    \/ pledge
    \/ ComputeStart
    \/ OverpayStep
    \/ LoadBids
    \/ BidSubtract
    \/ BidRedistribute
    \/ Finish
    \/ Respond

Spec == Init /\ [][Next]_vars

\* ------------------------------------------------------------ vocabulary of the claims
Active(rows) == SelectSeq(rows, LAMBDA r : r.active)

\* the active volunteer_overpay and underpay_bid rows
Effective(rows) == SelectSeq(rows, LAMBDA r : r.active /\ r.type # "equal")

Rows(sq) == { sq[i] : i \in 1..Len(sq) }

\* every active pledge references a participant of the event
RefsKnown == \A r \in Rows(Active(pledges)) : r.participant_id \in 1..nparts

\* active pledge values are non-negative, percentages within [0, 100]
ValidValues ==
    \A r \in Rows(Effective(pledges)) :
        /\ r.value >= 0
        /\ r.value_type = "percent" => r.value <= 10000

NegativePercent ==
    \E r \in Rows(Effective(pledges)) : r.value_type = "percent" /\ r.value < 0

total_cents == cents(total)

\* the bid being processed and its bidder (pc = "redistribute")
Bidder == Head(queue).participant_id

OthersSum == SumSeq(targets) - targets[Bidder]

AllBids == QueryPledges(pledges, "underpay_bid", TRUE)

\* the bids iterated before the current one
EarlierBids == SubSeq(AllBids, 1, Len(AllBids) - Len(queue))

\* ------------------------------------------------------------ claims

\* C1 (confirmed).  Conservation: with at least one participant and active
\* pledges that all reference participants, compute_allocations does not
\* raise, returns one amount per participant, and the amounts, in cents, sum
\* to the total in cents exactly.
C1_Conservation ==
    (nparts >= 1 /\ RefsKnown) =>
        /\ pc # "error"
        /\ pc = "done" => (Len(result) = nparts /\ SumSeq(result) = total_cents)

C1_Witness ==
    /\ pc = "done" /\ nparts = 3 /\ RefsKnown
    /\ \E r \in Rows(Active(pledges)) : r.type = "volunteer_overpay"
    /\ \E r \in Rows(Active(pledges)) : r.type = "underpay_bid"
    /\ result # EqualSplit(total_cents, nparts)

\* C2 (code bug).  Non-negativity: with non-negative values and percentages
\* within [0, 100], every returned amount is >= 0.
C2_NonNegative ==
    (pc = "done" /\ ValidValues) => \A i \in 1..Len(result) : result[i] >= 0

\* the only active pledge is a Fixed VolunteerOverpay of a participant
OnlyFixedOverpay ==
    /\ Len(Active(pledges)) = 1
    /\ Active(pledges)[1].type = "volunteer_overpay"
    /\ Active(pledges)[1].value_type = "fixed"
    /\ Active(pledges)[1].value > 0
    /\ Active(pledges)[1].participant_id \in 1..nparts

OverpayA == Active(pledges)[1].participant_id
OverpayV == cents(Active(pledges)[1].value)

C4_EmptyParticipants ==
    nparts = 0 =>
        /\ pc \in {"idle", "done"}
        /\ pc = "done" => result = <<>>
        /\ compute_allocations(total, nparts, pledges) = [status |-> "ok", value |-> <<>>]

C4_Witness ==
    pc = "done" /\ nparts = 0 /\ Len(Effective(pledges)) = MaxPledges /\ result = <<>>

\* C5 (confirmed).  Equal-split remainder: without active pledges the i-th
\* participant (from 0) is returned total_cents div N + 1 cents if i < total_cents mod N and
\* total_cents div N cents otherwise.
C5_EqualSplitRemainder ==
    (pc = "done" /\ nparts >= 1 /\ Effective(pledges) = <<>>) =>
        /\ Len(result) = nparts
        /\ \A i \in 0..(nparts - 1) :
              result[i + 1] = IF i < total_cents % nparts THEN (total_cents \div nparts) + 1 ELSE total_cents \div nparts

C5_Witness ==
    /\ pc = "done" /\ total = 100 /\ nparts = 3 /\ Effective(pledges) = <<>>
    /\ result = <<34, 33, 33>>

\* C6 (code bug).  Underpay never drives a target below zero: for a bid with
\* a non-negative value processed while the bidder's target is non-negative,
\* the target right after the shortfall is subtracted is still >= 0, and for
\* a Fixed bid the shortfall is min(value in cents, target before).
C6_UnderpayNonNegative ==
    (/\ pc = "redistribute"
     /\ Head(queue).value >= 0
     /\ targets[Bidder] + shortfall >= 0) =>
        /\ targets[Bidder] >= 0
        /\ Head(queue).value_type = "fixed" =>
              shortfall = Min(cents(Head(queue).value), targets[Bidder] + shortfall)

\* C7 (code bug).  InvalidPercentage: with an active Percent pledge of
\* negative value, compute_allocations fails and returns no mapping.
C7_InvalidPercentage ==
    (NegativePercent /\ nparts >= 1 /\ RefsKnown) => pc # "done"

\* C8 (original statement).  Every bid with shortfall s > 0 lowers the
\* bidder's target by exactly s and raises the sum of the other targets by
\* exactly s.
C8_Original ==
    [][ /\ (pc = "bids" /\ pc' = "redistribute") =>
              targets' = [targets EXCEPT ![Bidder] = @ - shortfall']
        /\ pc = "redistribute" =>
              /\ targets'[Bidder] = targets[Bidder]
              /\ SumSeq(targets') - targets'[Bidder] = OthersSum + shortfall ]_vars

\* C8 (amended).  Every bid with shortfall s > 0 lowers the bidder's target
\* by exactly s and leaves the bidder's target alone afterwards; the sum of
\* the other targets rises by exactly s when the others' current targets do
\* not sum to zero (the sum of all targets is then unchanged by the bid), and
\* by min(s, N - 1) when they sum to zero.
C8_ExactRedistribution ==
    [][ /\ (pc = "bids" /\ pc' = "redistribute") =>
              /\ shortfall' > 0
              /\ targets' = [targets EXCEPT ![Bidder] = @ - shortfall']
        /\ pc = "redistribute" =>
              /\ targets'[Bidder] = targets[Bidder]
              /\ OthersSum # 0 =>
                    /\ SumSeq(targets') - targets'[Bidder] = OthersSum + shortfall
                    /\ SumSeq(targets') = SumSeq(targets) + shortfall
              /\ OthersSum = 0 =>
                    SumSeq(targets') - targets'[Bidder] = Min(shortfall, nparts - 1) ]_vars

C8_Witness ==
    /\ pc = "bids" /\ total = 300 /\ nparts = 3
    /\ Len(AllBids) = 1 /\ queue = <<>>
    /\ AllBids[1].value_type = "percent" /\ AllBids[1].value = 5000
    /\ targets = <<50, 125, 125>>

\* C9 (original statement).  On valid input, whenever a bid with positive
\* shortfall reaches the redistribution step, the other participants'
\* targets do not sum to zero.
C9_Original ==
    (pc = "redistribute" /\ ValidValues) => OthersSum # 0

\* C9 (amended).  On valid input with at least two participants and a base
\* share of at least one cent (total in cents >= N), whenever a bid with
\* positive shortfall reaches the redistribution step and no bid of another
\* participant was processed before it, the other participants' targets do
\* not sum to zero, so the denominator is not replaced.
C9_GuardNotTaken ==
    (/\ pc = "redistribute" /\ ValidValues
     /\ nparts >= 2 /\ total_cents >= nparts
     /\ \A r \in Rows(EarlierBids) : r.participant_id = Bidder) =>
        /\ OthersSum # 0
        /\ Denom(targets, Bidder) = OthersSum

C9_Witness ==
    /\ pc = "redistribute" /\ ValidValues /\ nparts >= 2 /\ total_cents >= nparts
    /\ Len(EarlierBids) = 1 /\ EarlierBids[1].participant_id = Bidder
    /\ OthersSum # 0

RECURSIVE PostedBids(_, _)
\* the rows of all that are missing from its subsequence kept
PostedBids(all, kept) ==
    IF all = <<>> THEN <<>>
    ELSE IF kept # <<>> /\ Head(all) = Head(kept) THEN PostedBids(Tail(all), Tail(kept))
    ELSE <<Head(all)>> \o PostedBids(Tail(all), kept)

====
